---------------------------- MODULE Spec2Model ----------------------------
(***************************************************************************)
(* A model of chkmd (src/main.go, lines 1-695): the metadata field         *)
(* resolution of type exif, the date parser, the row builders, and the     *)
(* scanner / worker / writer pipeline that main() drives.                  *)
(*                                                                         *)
(* Go strings are TLA+ strings; a byte of a string s is SubSeq(s, i, i),   *)
(* with positions counted from 1 (Go counts from 0).  A Go map is a        *)
(* function whose DOMAIN is the set of keys present.  An error value is a  *)
(* string, its Error() text, and nil is the value Nil.                     *)
(***************************************************************************)
EXTENDS Integers, Sequences, FiniteSets, TLC

(***************************************************************************)
(* Bounds of the model.                                                    *)
(***************************************************************************)
\* The largest number of directory entries filepath.Walk hands the walker.
MaxEntries == 5
\* The largest worker count (-p) the model runs; 0 workers is included.
MaxProcs == 2
\* The capacity of both channels.  main() makes them with capacity 64
\* (main.go:637, main.go:652); the model scales both down so that a full
\* channel, and a sender blocked on it, occur within MaxEntries entries.
QueueCap == 1

(***************************************************************************)
(* Strings: the library calls the program makes.                           *)
(***************************************************************************)
Nil == "<nil>"

Char(s, i) == SubSeq(s, i, i)

Digits == "0123456789"

\* '0' <= s[i] <= '9', false past the end of s (time.isDigit).
IsDigit(s, i) == i >= 1 /\ i <= Len(s) /\ \E k \in 1..10 : Char(Digits, k) = Char(s, i)

DigitVal(c) == (CHOOSE k \in 1..10 : Char(Digits, k) = c) - 1

\* unicode.IsSpace on the bytes that occur: space, tab, newline, return.
IsSpace(c) == c \in {" ", "\t", "\n", "\r"}

RECURSIVE TrimLeft(_)
TrimLeft(s) == IF s # "" /\ IsSpace(Char(s, 1)) THEN TrimLeft(Tail(s)) ELSE s

RECURSIVE TrimRight(_)
TrimRight(s) ==
    IF s # "" /\ IsSpace(Char(s, Len(s))) THEN TrimRight(SubSeq(s, 1, Len(s) - 1)) ELSE s

\* strings.TrimSpace
TrimSpace(s) == TrimRight(TrimLeft(s))

\* strings.HasPrefix
HasPrefix(s, p) == Len(s) >= Len(p) /\ SubSeq(s, 1, Len(p)) = p

\* strings.Contains
Contains(s, sub) == \E i \in 1..(Len(s) + 1) : HasPrefix(SubSeq(s, i, Len(s)), sub)

\* strings.Split(s, sep)[0]: s up to the first sep, all of s when there is none.
SplitFirst(s, sep) ==
    IF Contains(s, sep)
    THEN LET i == CHOOSE j \in 1..(Len(s) + 1) :
                      /\ HasPrefix(SubSeq(s, j, Len(s)), sep)
                      /\ \A k \in 1..(j - 1) : ~HasPrefix(SubSeq(s, k, Len(s)), sep)
         IN  SubSeq(s, 1, i - 1)
    ELSE s

\* filepath.Ext / path.Ext: the suffix beginning at the final dot of the final
\* path element, empty when that element holds no dot.
Ext(name) ==
    LET dots == {i \in 1..Len(name) :
                    /\ Char(name, i) = "."
                    /\ \A k \in i..Len(name) : Char(name, k) # "/"}
    IN  IF dots = {} THEN ""
        ELSE LET i == CHOOSE j \in dots : \A k \in dots : k <= j
             IN  SubSeq(name, i, Len(name))

\* strings.Join(addr, ", ")
RECURSIVE Join(_, _)
Join(xs, sep) ==
    IF xs = <<>> THEN ""
    ELSE IF Len(xs) = 1 THEN xs[1]
    ELSE xs[1] \o sep \o Join(Tail(xs), sep)

\* A Go map read: the zero value "" for a key that is not present.
Get(m, k) == IF k \in DOMAIN m THEN m[k] ELSE ""

(***************************************************************************)
(* time.Parse, for the layout elements the program's layouts are made of,  *)
(* and Time.Format(time.RFC3339).  A parsed time is the record of its wall *)
(* clock fields and its zone offset in seconds.                            *)
(***************************************************************************)
exifDateOnly == "2006:01:02"
exifDate == "2006:01:02 15:04:05"
exifNanoDate == "2006:01:02 15:04:05.00"
exifDateZone == "2006:01:02 15:04:05-07:00"
exifNanoDateZone == "2006:01:02 15:04:05.00-07:00"
na == "N/A"

ZeroTime == [year |-> 1, month |-> 1, day |-> 1, hour |-> 0, min |-> 0,
             sec |-> 0, nsec |-> 0, off |-> 0]

StdElems == {"2006", "01", "02", "15", "04", "05", ".00", "-07:00"}

\* time.nextStdChunk: the text before the first layout element, that element
\* ("" when the layout holds none) and the text after it.
NextStdChunk(layout) ==
    LET at(i) == {e \in StdElems : HasPrefix(SubSeq(layout, i, Len(layout)), e)}
        Longest(es) == CHOOSE x \in es : \A y \in es : Len(y) <= Len(x)
        Cut(i, e) == [prefix |-> SubSeq(layout, 1, i - 1), std |-> e,
                      suffix |-> SubSeq(layout, i + Len(e), Len(layout))]
        CutAt(i) == Cut(i, Longest(at(i)))
        First(starts) ==
            IF starts = {} THEN [prefix |-> layout, std |-> "", suffix |-> ""]
            ELSE CutAt(CHOOSE j \in starts : \A k \in starts : j <= k)
    IN  First({i \in 1..Len(layout) : at(i) # {}})

\* time.cutspace
RECURSIVE CutSpace(_)
CutSpace(s) == IF s # "" /\ Char(s, 1) = " " THEN CutSpace(Tail(s)) ELSE s

\* time.skip: value with the literal text prefix removed; a space of the
\* layout stands for any run of spaces of the value.
RECURSIVE Skip(_, _)
Skip(value, prefix) ==
    IF prefix = "" THEN [ok |-> TRUE, v |-> value]
    ELSE IF Char(prefix, 1) = " "
         THEN IF value # "" /\ Char(value, 1) # " "
              THEN [ok |-> FALSE, v |-> value]
              ELSE Skip(CutSpace(value), CutSpace(prefix))
         ELSE IF value = "" \/ Char(value, 1) # Char(prefix, 1)
              THEN [ok |-> FALSE, v |-> value]
              ELSE Skip(Tail(value), Tail(prefix))

\* time.getnum: one or two leading digits of s; two are required when fixed.
GetNum(s, fixed) ==
    IF ~IsDigit(s, 1) THEN [ok |-> FALSE, n |-> 0, v |-> s]
    ELSE IF ~IsDigit(s, 2)
         THEN IF fixed THEN [ok |-> FALSE, n |-> 0, v |-> s]
              ELSE [ok |-> TRUE, n |-> DigitVal(Char(s, 1)), v |-> Tail(s)]
         ELSE [ok |-> TRUE, n |-> DigitVal(Char(s, 1)) * 10 + DigitVal(Char(s, 2)),
               v |-> SubSeq(s, 3, Len(s))]

AllDigits(s) == s # "" /\ \A i \in 1..Len(s) : IsDigit(s, i)

RECURSIVE Atoi(_)
Atoi(s) == IF s = "" THEN 0
           ELSE Atoi(SubSeq(s, 1, Len(s) - 1)) * 10 + DigitVal(Char(s, Len(s)))

RECURSIVE Pow10(_)
Pow10(n) == IF n <= 0 THEN 1 ELSE 10 * Pow10(n - 1)

\* time.parseNanoseconds: the first nbytes bytes of value, a period and digits.
ParseNanoseconds(value, nbytes) ==
    IF Char(value, 1) # "." \/ ~AllDigits(SubSeq(value, 2, nbytes)) \/ nbytes > 10
    THEN [ok |-> FALSE, n |-> 0]
    ELSE [ok |-> TRUE, n |-> Atoi(SubSeq(value, 2, nbytes)) * Pow10(10 - nbytes)]

\* The number of leading bytes of value that are a period and its digits.
RECURSIVE FracLen(_, _)
FracLen(value, n) == IF IsDigit(value, n + 1) THEN FracLen(value, n + 1) ELSE n

IsLeap(year) == year % 4 = 0 /\ (year % 100 # 0 \/ year % 400 = 0)

\* time.daysIn
DaysIn(month, year) ==
    IF month = 2 THEN (IF IsLeap(year) THEN 29 ELSE 28)
    ELSE IF month \in {4, 6, 9, 11} THEN 30 ELSE 31

BadParse(st) == [st EXCEPT !.ok = FALSE]

\* One layout element of time.parse, applied to the rest st.v of the value.
\* suffix is the layout after the element.
ParseStd(std, st, suffix) ==
    LET value == st.v IN
    CASE std = "2006" ->
           IF Len(value) < 4 \/ ~AllDigits(SubSeq(value, 1, 4)) THEN BadParse(st)
           ELSE [st EXCEPT !.year = Atoi(SubSeq(value, 1, 4)),
                           !.v = SubSeq(value, 5, Len(value))]
      [] std = "01" ->
           LET Month(g) == IF ~g.ok \/ g.n <= 0 \/ 12 < g.n THEN BadParse(st)
                           ELSE [st EXCEPT !.month = g.n, !.v = g.v]
           IN  Month(GetNum(value, TRUE))
      [] std = "02" ->
           LET Day(g) == IF ~g.ok THEN BadParse(st)
                         ELSE [st EXCEPT !.day = g.n, !.v = g.v]
           IN  Day(GetNum(value, TRUE))
      [] std = "15" ->
           LET Hour(g) == IF ~g.ok \/ 24 <= g.n THEN BadParse(st)
                          ELSE [st EXCEPT !.hour = g.n, !.v = g.v]
           IN  Hour(GetNum(value, FALSE))
      [] std = "04" ->
           LET Minute(g) == IF ~g.ok \/ 60 <= g.n THEN BadParse(st)
                            ELSE [st EXCEPT !.min = g.n, !.v = g.v]
           IN  Minute(GetNum(value, TRUE))
      [] std = "05" ->
           LET Frac(g, n, f) ==
                   IF ~f.ok THEN BadParse(st)
                   ELSE [st EXCEPT !.sec = g.n, !.nsec = f.n,
                                   !.v = SubSeq(g.v, n + 1, Len(g.v))]
               FracOf(g, n) == Frac(g, n, ParseNanoseconds(g.v, n))
               Second(g) ==
                   IF ~g.ok \/ 60 <= g.n THEN BadParse(st)
                   ELSE IF Len(g.v) >= 2 /\ Char(g.v, 1) = "." /\ IsDigit(g.v, 2)
                           /\ NextStdChunk(suffix).std # ".00"
                        \* a fractional second of the value that the layout
                        \* does not name
                        THEN FracOf(g, FracLen(g.v, 2))
                        ELSE [st EXCEPT !.sec = g.n, !.v = g.v]
           IN  Second(GetNum(value, TRUE))
      [] std = ".00" ->
           LET Nanos(f) == IF ~f.ok THEN BadParse(st)
                           ELSE [st EXCEPT !.nsec = f.n,
                                           !.v = SubSeq(value, 4, Len(value))]
           IN  IF Len(value) < 3 THEN BadParse(st)
               ELSE Nanos(ParseNanoseconds(value, 3))
      [] std = "-07:00" ->
           LET Zone(sign, hr, mm) ==
                   IF ~hr.ok \/ ~mm.ok \/ hr.n > 24 \/ mm.n > 60
                      \/ sign \notin {"+", "-"}
                   THEN BadParse(st)
                   ELSE [st EXCEPT
                           !.off = IF sign = "-" THEN 0 - (hr.n * 60 + mm.n) * 60
                                   ELSE (hr.n * 60 + mm.n) * 60,
                           !.v = SubSeq(value, 7, Len(value))]
           IN  IF Len(value) < 6 \/ Char(value, 4) # ":" THEN BadParse(st)
               ELSE Zone(Char(value, 1), GetNum(SubSeq(value, 2, 3), TRUE),
                         GetNum(SubSeq(value, 5, 6), TRUE))

\* The loop of time.parse: one layout element per iteration, then the check
\* that no text is left over.
RECURSIVE ParseLoop(_, _)
ParseLoop(layout, st) ==
    LET Rest(ch, st2) == IF ~st2.ok THEN st2 ELSE ParseLoop(ch.suffix, st2)
        Element(ch, sk) ==
            IF ~sk.ok THEN BadParse(st)
            ELSE IF ch.std = ""
                 THEN (IF sk.v # "" THEN BadParse(st) ELSE [st EXCEPT !.v = ""])
                 ELSE Rest(ch, ParseStd(ch.std, [st EXCEPT !.v = sk.v], ch.suffix))
        Chunk(ch) == Element(ch, Skip(st.v, ch.prefix))
    IN  Chunk(NextStdChunk(layout))

\* time.Parse(layout, value): the time and the error, Nil for none.
TimeParse(layout, value) ==
    LET Date(st) ==
            IF ~st.ok \/ st.day < 1 \/ st.day > DaysIn(st.month, st.year)
            THEN [t |-> ZeroTime, err |-> "parsing time: cannot parse"]
            ELSE [t |-> [year |-> st.year, month |-> st.month, day |-> st.day,
                         hour |-> st.hour, min |-> st.min, sec |-> st.sec,
                         nsec |-> st.nsec, off |-> st.off],
                  err |-> Nil]
    IN  Date(ParseLoop(layout, [ok |-> TRUE, v |-> value, year |-> 0, month |-> 1,
                                day |-> 1, hour |-> 0, min |-> 0, sec |-> 0,
                                nsec |-> 0, off |-> 0]))

Pad2(n) == Char(Digits, ((n \div 10) % 10) + 1) \o Char(Digits, (n % 10) + 1)

Pad4(n) == Pad2(n \div 100) \o Pad2(n % 100)

\* Time.Format(time.RFC3339), layout "2006-01-02T15:04:05Z07:00".
FormatRFC3339(t) ==
    LET zone == (IF t.off < 0 THEN 0 - t.off ELSE t.off) \div 60 IN
    Pad4(t.year) \o "-" \o Pad2(t.month) \o "-" \o Pad2(t.day) \o "T"
    \o Pad2(t.hour) \o ":" \o Pad2(t.min) \o ":" \o Pad2(t.sec)
    \o (IF t.off = 0 THEN "Z"
        ELSE (IF t.off < 0 THEN "-" ELSE "+")
             \o Pad2(zone \div 60) \o ":" \o Pad2(zone % 60))

\* parseDate (main.go:478): the layout is chosen from the presence of "." and
\* of "-" in the trimmed string; the date-only layout is tried when it fails.
parseDate(d0) ==
    LET format(d) == IF Contains(d, ".")
                     THEN (IF Contains(d, "-") THEN exifNanoDateZone ELSE exifNanoDate)
                     ELSE (IF Contains(d, "-") THEN exifDateZone ELSE exifDate)
        Retry(d, r) == IF r.err # Nil THEN TimeParse(exifDateOnly, d) ELSE r
        Try(d) == Retry(d, TimeParse(format(d), d))
    IN  Try(TrimSpace(d0))

(***************************************************************************)
(* The configuration and the record type exif with its resolution methods. *)
(***************************************************************************)
\* The accepted MIME types readConfig loads into the global map mimeTypes.
mimeTypes == {"image/jpeg", "audio/mpeg", "application/pdf"}

csvHeader ==
    << "Path", "Status", "Reason", "NASA ID", "Title", "508 Description",
       "Description", "Date Created", "Location", "Keywords", "Media Type",
       "File Format", "Center", "Secondary Creator Credit", "Photographer",
       "Album" >>

EmptyMap == [k \in {} |-> ""]

newExif == [Data |-> EmptyMap, Exif |-> EmptyMap, IPTC |-> EmptyMap, XMP |-> EmptyMap]

\* DateCreated with the Exif tag consulted before the IPTC pair.
DateCreatedExifFirst(e) ==
    LET Xmp(d) == IF d = "" THEN Get(e.XMP, "DateCreated") ELSE d
        Iptc(d) ==
            IF d = ""
            THEN TrimSpace(Get(e.IPTC, "DateCreated") \o " " \o Get(e.IPTC, "TimeCreated"))
            ELSE d
    IN  parseDate(Xmp(Iptc(Get(e.Exif, "DateTimeOriginal"))))

\* DateCreated moving on to the next tag when a date string does not parse.
DateCreatedFirstParsable(e) ==
    LET Iptc == TrimSpace(Get(e.IPTC, "DateCreated") \o " " \o Get(e.IPTC, "TimeCreated"))
        Or(r, d) == IF r.err = Nil THEN r ELSE parseDate(d)
    IN  Or(Or(parseDate(Iptc), Get(e.Exif, "DateTimeOriginal")),
           Get(e.XMP, "DateCreated"))

DateCreated(e) ==
    LET Xmp(d) == IF d = "" THEN Get(e.XMP, "DateCreated") ELSE d
        Exif(d) == IF d = "" THEN Get(e.Exif, "DateTimeOriginal") ELSE d
        Iptc == TrimSpace(Get(e.IPTC, "DateCreated") \o " " \o Get(e.IPTC, "TimeCreated"))
    IN  parseDate(Xmp(Exif(Iptc)))

\* HasDateCreated asking only whether a date string was found.
HasDateCreatedNonEmpty(e) ==
    \/ TrimSpace(Get(e.IPTC, "DateCreated") \o " " \o Get(e.IPTC, "TimeCreated")) # ""
    \/ Get(e.Exif, "DateTimeOriginal") # ""
    \/ Get(e.XMP, "DateCreated") # ""

HasDateCreated(e) == DateCreated(e).err = Nil

Keywords(e) ==
    LET kw == Get(e.IPTC, "Keywords")
    IN  IF kw = "" THEN Get(e.XMP, "Subject") ELSE kw

HasKeywords(e) == Keywords(e) # ""

Description(e) ==
    LET d1 == Get(e.IPTC, "Caption-Abstract")
        d2 == IF d1 = "" THEN Get(e.Exif, "ImageDescription") ELSE d1
    IN  IF d2 = "" THEN Get(e.XMP, "Description") ELSE d2

HasDescription(e) == Description(e) # ""

\* NasaID reading IPTC JobID ahead of IPTC OriginalTransmissionReference.
NasaIDJobFirst(e) ==
    LET id1 == Get(e.IPTC, "JobID")
        id2 == IF id1 = "" THEN Get(e.IPTC, "OriginalTransmissionReference") ELSE id1
        id3 == IF id2 = "" THEN Get(e.Exif, "ImageUniqueID") ELSE id2
        id4 == IF id3 = "" THEN Get(e.XMP, "Identifier") ELSE id3
        id5 == IF id4 = "" THEN Get(e.XMP, "TransmissionReference") ELSE id4
        name == Get(e.Data, "FileName")
    IN  IF id5 = "" THEN SubSeq(name, 1, Len(name) - Len(Ext(name))) ELSE id5

NasaID(e) ==
    LET id1 == Get(e.IPTC, "OriginalTransmissionReference")
        id2 == IF id1 = "" THEN Get(e.IPTC, "JobID") ELSE id1
        id3 == IF id2 = "" THEN Get(e.Exif, "ImageUniqueID") ELSE id2
        id4 == IF id3 = "" THEN Get(e.XMP, "Identifier") ELSE id3
        id5 == IF id4 = "" THEN Get(e.XMP, "TransmissionReference") ELSE id4
        name == Get(e.Data, "FileName")
    IN  IF id5 = "" THEN SubSeq(name, 1, Len(name) - Len(Ext(name))) ELSE id5

HasNasaID(e) == NasaID(e) # ""

\* Title reading IPTC Headline ahead of IPTC ObjectName.
TitleHeadlineFirst(e) ==
    LET t1 == Get(e.IPTC, "Headline")
        t2 == IF t1 = "" THEN Get(e.IPTC, "ObjectName") ELSE t1
    IN  IF t2 = "" THEN Get(e.XMP, "Title") ELSE t2

Title(e) ==
    LET t1 == Get(e.IPTC, "ObjectName")
        t2 == IF t1 = "" THEN Get(e.IPTC, "Headline") ELSE t1
    IN  IF t2 = "" THEN Get(e.XMP, "Title") ELSE t2

HasTitle(e) == Title(e) # ""

Location(e) ==
    LET pick(a, b) == IF Get(e.IPTC, a) = "" THEN Get(e.XMP, b) ELSE Get(e.IPTC, a)
        city == pick("City", "City")
        region == pick("Province-State", "State")
        country == pick("Country-PrimaryLocationName", "Country")
        addr == (IF city # "" THEN <<city>> ELSE <<>>)
                \o (IF region # "" THEN <<region>> ELSE <<>>)
                \o (IF country # "" THEN <<country>> ELSE <<>>)
    IN  Join(addr, ", ")

HasLocation(e) == Location(e) # ""

\* MediaType reading file-info MIMEType ahead of XMP Format.
MediaTypeMimeFirst(e) ==
    LET t0 == Get(e.Data, "MIMEType")
        t1 == IF t0 = "" THEN Get(e.XMP, "Format") ELSE t0
        t == SplitFirst(t1, "/")
    IN  IF t1 \in mimeTypes /\ t \in {"audio", "image", "video"} THEN t ELSE ""

MediaType(e) ==
    LET t0 == Get(e.XMP, "Format")
        t1 == IF t0 = "" THEN Get(e.Data, "MIMEType") ELSE t0
        t == SplitFirst(t1, "/")
    IN  IF t1 \in mimeTypes /\ t \in {"audio", "image", "video"} THEN t ELSE ""

HasMediaType(e) == MediaType(e) # ""

FileFormat(e) ==
    IF Get(e.Data, "MIMEType") \in mimeTypes THEN Get(e.Data, "FileType") ELSE ""

HasFileFormat(e) == FileFormat(e) # ""

Photographer(e) ==
    LET p1 == Get(e.IPTC, "By-line")
        p2 == IF p1 = "" THEN Get(e.Exif, "Artist") ELSE p1
    IN  IF p2 = "" THEN Get(e.XMP, "Artist") ELSE p2

HasPhotographer(e) == Photographer(e) # ""

\* MakeErrorRow ranging over csvHeader instead of csvHeader[3:].
MakeErrorRowAllColumns(p, err) ==
    <<p, "Rejected", err>> \o [i \in 1..Len(csvHeader) |-> ""]

\* The row MakeErrorRow sends: the path, "Rejected", the error text, and one
\* empty cell for every header column after the third.
MakeErrorRow(p, err) ==
    <<p, "Rejected", err>> \o [i \in 1..Len(SubSeq(csvHeader, 4, Len(csvHeader))) |-> ""]

\* MakeRow with the description in the "508 Description" cell as well.
MakeRowDescriptionTwice(e, p, status, reason) ==
    LET dc == IF HasDateCreated(e) THEN FormatRFC3339(DateCreated(e).t) ELSE ""
    IN  << p, status, reason, NasaID(e), Title(e), Description(e), Description(e), dc,
           Location(e), Keywords(e), MediaType(e), FileFormat(e), na, na,
           Photographer(e), na >>

\* MakeRow sending the error row whenever DateCreated returns an error,
\* without asking HasDateCreated first.
MakeRowStrictDate(e, p, status, reason) ==
    IF DateCreated(e).err # Nil
    THEN MakeErrorRow(p, DateCreated(e).err)
    ELSE LET dc == FormatRFC3339(DateCreated(e).t)
         IN  << p, status, reason, NasaID(e), Title(e), na, Description(e), dc,
                Location(e), Keywords(e), MediaType(e), FileFormat(e), na, na,
                Photographer(e), na >>

\* The row MakeRow sends.
MakeRow(e, p, status, reason) ==
    IF HasDateCreated(e) /\ DateCreated(e).err # Nil
    THEN MakeErrorRow(p, DateCreated(e).err)
    ELSE LET dc == IF HasDateCreated(e) THEN FormatRFC3339(DateCreated(e).t) ELSE ""
         IN  << p, status, reason, NasaID(e), Title(e), na, Description(e), dc,
                Location(e), Keywords(e), MediaType(e), FileFormat(e), na, na,
                Photographer(e), na >>

(***************************************************************************)
(* getExifData: the output of `exiftool -G -s -a p`, cut at fixed columns. *)
(***************************************************************************)
\* strings.Trim(s, " \r\n")
RECURSIVE TrimCutset(_)
TrimCutset(s) ==
    IF s # "" /\ Char(s, 1) \in {" ", "\r", "\n"} THEN TrimCutset(Tail(s))
    ELSE IF s # "" /\ Char(s, Len(s)) \in {" ", "\r", "\n"}
         THEN TrimCutset(SubSeq(s, 1, Len(s) - 1))
         ELSE s

\* strings.Split(s, "\n")
RECURSIVE SplitLines(_)
SplitLines(s) ==
    IF ~Contains(s, "\n") THEN <<s>>
    ELSE LET first == SplitFirst(s, "\n")
         IN  <<first>> \o SplitLines(SubSeq(s, Len(first) + 2, Len(s)))

\* Whether the four slice expressions of the loop body stay within the line:
\* line[0:48], tk[0:15], tk[16:] and line[50:].  A slice past the end is a
\* run-time panic.
LineInBounds(line) ==
    /\ Len(line) >= 48
    /\ Len(TrimSpace(SubSeq(line, 1, 48))) >= 16
    /\ Len(line) >= 50

Put(m, k, v) == [x \in DOMAIN m \cup {k} |-> IF x = k THEN v ELSE m[x]]

\* The loop body of getExifData for one line that is within bounds.
LoadLine(e, line) ==
    LET tk == TrimSpace(SubSeq(line, 1, 48))
        t == TrimSpace(SubSeq(tk, 1, 15))
        k == TrimSpace(SubSeq(tk, 17, Len(tk)))
        v == TrimSpace(SubSeq(line, 51, Len(line)))
    IN  CASE t = "[EXIF]" -> [e EXCEPT !.Exif = Put(e.Exif, k, v)]
          [] t = "[IPTC]" -> [e EXCEPT !.IPTC = Put(e.IPTC, k, v)]
          [] t = "[XMP]" -> [e EXCEPT !.XMP = Put(e.XMP, k, v)]
          [] OTHER -> [e EXCEPT !.Data = Put(e.Data, k, v)]

RECURSIVE LoadLines(_, _)
LoadLines(e, lines) ==
    IF lines = <<>> THEN e ELSE LoadLines(LoadLine(e, Head(lines)), Tail(lines))

\* getExifData going on to the loop whatever cmd.Run() returned.
getExifDataNoErrorCheck(run) ==
    LET lines == SplitLines(TrimCutset(run.out))
    IN  IF \E i \in 1..Len(lines) : ~LineInBounds(lines[i])
        THEN [e |-> newExif, err |-> Nil, panic |-> TRUE]
        ELSE [e |-> LoadLines(newExif, lines), err |-> run.err, panic |-> FALSE]

\* getExifData, given what cmd.Run() returned (run.err) and wrote to the
\* buffer (run.out): the record, the error, and whether the call panicked
\* instead of returning.
getExifData(run) ==
    IF run.err # Nil THEN [e |-> newExif, err |-> run.err, panic |-> FALSE]
    ELSE LET lines == SplitLines(TrimCutset(run.out))
         IN  IF \E i \in 1..Len(lines) : ~LineInBounds(lines[i])
             THEN [e |-> newExif, err |-> Nil, panic |-> TRUE]
             ELSE [e |-> LoadLines(newExif, lines), err |-> Nil, panic |-> FALSE]

(***************************************************************************)
(* The environment: the directory tree and the extraction collaborator.    *)
(***************************************************************************)
RECURSIVE Spaces(_)
Spaces(n) == IF n <= 0 THEN "" ELSE " " \o Spaces(n - 1)

\* One line of exiftool's -G -s output: the group in brackets, padded to 16
\* columns, the tag name padded to 32, a colon, a space and the value.
ToolLine(group, tag, value) ==
    "[" \o group \o "]" \o Spaces(14 - Len(group)) \o tag \o Spaces(32 - Len(tag))
    \o ": " \o value \o "\n"

FileLines(name, type, mime) ==
    ToolLine("File", "FileName", name) \o ToolLine("File", "FileType", type)
    \o ToolLine("File", "MIMEType", mime)

\* The entries a directory tree may hold, in the lexical order in which
\* filepath.Walk visits them: the root directory, a file with a date and a
\* description, an entry whose Lstat fails, a file the extractor fails on, a
\* file with no metadata, a file of a type that is not accepted, and a file
\* whose last tag has an empty value.  fi is the os.FileInfo Walk hands the
\* walker, "nil" when Lstat failed; run is what cmd.Run() returns and
\* captures for the file.
Catalogue ==
    << [path |-> "d", fi |-> "dir", run |-> [err |-> Nil, out |-> ""]],
       [path |-> "d/image.jpg", fi |-> "file",
        run |-> [err |-> Nil,
                 out |-> FileLines("image.jpg", "JPEG", "image/jpeg")
                         \o ToolLine("EXIF", "DateTimeOriginal", "2003:09:01 18:28:44")
                         \o ToolLine("IPTC", "Caption-Abstract", "Row of power lines")
                         \o ToolLine("Composite", "Megapixels", "0.5")]],
       [path |-> "d/lost.jpg", fi |-> "nil",
        run |-> [err |-> "exit status 1", out |-> ""]],
       [path |-> "d/noimage.jpg", fi |-> "file",
        run |-> [err |-> "exit status 1", out |-> ""]],
       [path |-> "d/nomd.jpg", fi |-> "file",
        run |-> [err |-> Nil, out |-> FileLines("nomd.jpg", "JPEG", "image/jpeg")]],
       [path |-> "d/notes.txt", fi |-> "file",
        run |-> [err |-> Nil, out |-> FileLines("notes.txt", "TXT", "text/plain")]],
       [path |-> "d/paper.pdf", fi |-> "file",
        run |-> [err |-> Nil,
                 out |-> FileLines("paper.pdf", "PDF", "application/pdf")
                         \o ToolLine("PDF", "Keywords", "")]] >>

Paths == {Catalogue[i].path : i \in 1..Len(Catalogue)}

\* What cmd.Run() returns and captures for `exiftool -G -s -a p`.
ExifTool(p) == Catalogue[CHOOSE i \in 1..Len(Catalogue) : Catalogue[i].path = p].run

\* getExifData(p) for each path of the catalogue.
Extracted == [p \in Paths |-> getExifData(ExifTool(p))]

\* mime.TypeByExtension, on the extensions that occur.
TypeByExtension(ext) ==
    CASE ext = ".jpg" -> "image/jpeg"
      [] ext = ".pdf" -> "application/pdf"
      [] ext = ".mp3" -> "audio/mpeg"
      [] ext = ".txt" -> "text/plain; charset=utf-8"
      [] OTHER -> ""

(***************************************************************************)
(* The pipeline: main, the scanner goroutine, the workers (processFiles)   *)
(* and the writer (makeOutput).                                            *)
(***************************************************************************)
VARIABLES
    procs,          \* the flag -p
    procState,      \* "running", "exited" (main returned), "fatal", "panic"
    panicMsg,       \* the run-time error of a panic, "" while there is none
    mainPc,         \* where main() stands
    spawned,        \* the loop counter i of main's worker loop
    scanPc,         \* where the scanner goroutine stands
    walked,         \* the place in Catalogue of the entry Walk visited last
    visits,         \* the number of entries Walk has handed the walker
    scanCur,        \* the path p of the walker call in progress
    files,          \* the channel files: its buffer
    filesClosed,    \* whether files is closed
    results,        \* the channel results: its buffer
    resultsClosed,  \* whether results is closed
    stats,          \* the four counters of statistics
    ingroup,        \* the counter of the WaitGroup ingroup
    outgroup,       \* the counter of the WaitGroup outgroup
    wpc,            \* where each worker stands
    wpath,          \* each worker's p
    wres,           \* each worker's e, err
    wvars,          \* each worker's status, reason
    writerPc,       \* where the writer stands
    writerRow,      \* the writer's result
    outBuf,         \* the rows held by the csv.Writer out
    report,         \* the rows flushed to the output destination
    recvLog,        \* history: the paths workers have received, in order
    sentLog,        \* history: the rows workers have sent, in order
    summary,        \* the counters as main logs them, <<>> before
    visited,        \* history: the paths Walk has handed the walker, in order
    emitLog,        \* history: the paths the walker has sent on files, in order
    rIn,            \* a function on its own: its arguments; for one iteration
                    \* of a worker p, e, err, and status and reason as the
                    \* iteration before left them
    rOut            \* what the calls on rIn returned, <<>> before

vars == << procs, procState, panicMsg, mainPc, spawned, scanPc, walked, visits,
           scanCur,
           files, filesClosed, results, resultsClosed, stats, ingroup, outgroup,
           wpc, wpath, wres, wvars, writerPc, writerRow, outBuf, report, recvLog,
           sentLog, summary, visited, emitLog, rIn, rOut >>

Workers == 1..MaxProcs

Running == procState = "running"

\* The state main() starts in, but for the flag -p.
Constructed ==
    /\ procState = "running"
    /\ panicMsg = ""
    /\ mainPc = "stat"
    /\ spawned = 0
    /\ scanPc = "idle"
    /\ walked = 0
    /\ visits = 0
    /\ scanCur = ""
    /\ files = <<>>
    /\ filesClosed = FALSE
    /\ results = <<>>
    /\ resultsClosed = FALSE
    /\ stats = [Total |-> 0, Relevant |-> 0, Reject |-> 0, Accept |-> 0]
    /\ ingroup = 0
    /\ outgroup = 0
    /\ wpc = [w \in Workers |-> "idle"]
    /\ wpath = [w \in Workers |-> ""]
    /\ wres = [w \in Workers |-> [e |-> newExif, err |-> Nil]]
    /\ wvars = [w \in Workers |-> [status |-> "", reason |-> ""]]
    /\ writerPc = "idle"
    /\ writerRow = <<>>
    /\ outBuf = <<>>
    /\ report = <<>>
    /\ recvLog = <<>>
    /\ sentLog = <<>>
    /\ summary = <<>>
    /\ visited = <<>>
    /\ emitLog = <<>>

NoInput == [p |-> "", e |-> newExif, err |-> Nil, status |-> "", reason |-> ""]

NoOutput == [date |-> <<>>, counter |-> "", row |-> <<>>]

Init ==
    /\ procs \in 0..MaxProcs
    /\ Constructed
    /\ rIn = NoInput
    /\ rOut = NoOutput

\* A panic of any goroutine ends the process.
Panic(msg) == procState' = "panic" /\ panicMsg' = msg

mainVars == << mainPc, spawned, summary >>
scanVars == << scanPc, walked, visits, scanCur, visited, emitLog >>
chanVars == << files, filesClosed, results, resultsClosed >>
workerVars == << wpc, wpath, wres, wvars, recvLog, sentLog >>
writerVars == << writerPc, writerRow >>
outVars == << outBuf, report >>
groupVars == << ingroup, outgroup >>
resVars == << rIn, rOut >>

----------------------------------------------------------------------------
(* The scanner: filepath.Walk with makeWalker's function, then close(files). *)

\* The walker without its test of the type.
RelevantAnyType(p) == TRUE

\* The walker's filter: types[mime.TypeByExtension(path.Ext(p))]
Relevant(p) == TypeByExtension(Ext(p)) \in mimeTypes

\* Walk calls the walker for the next entry of the tree, any later entry of
\* the catalogue.  The walker ignores the error Walk reports and calls
\* fi.IsDir(), a nil dereference when Lstat failed; a directory returns at
\* once, any other entry counts into Total, and a relevant one goes on to
\* the send.
ScanVisit ==
    /\ Running /\ scanPc = "walk" /\ visits < MaxEntries
    /\ \E i \in (walked + 1)..Len(Catalogue) :
         LET p == Catalogue[i].path IN
         /\ walked' = i
         /\ visits' = visits + 1
         /\ visited' = Append(visited, p)
         /\ CASE Catalogue[i].fi = "nil" ->
                   /\ Panic("nil pointer dereference")
                   /\ UNCHANGED << stats, scanPc, scanCur >>
              [] Catalogue[i].fi = "dir" ->
                   UNCHANGED << stats, scanPc, scanCur, procState, panicMsg >>
              [] OTHER ->
                   /\ stats' = [stats EXCEPT !.Total = @ + 1]
                   /\ IF Relevant(p)
                      THEN scanPc' = "send" /\ scanCur' = p
                      ELSE UNCHANGED << scanPc, scanCur >>
                   /\ UNCHANGED << procState, panicMsg >>
    /\ UNCHANGED << resVars, procs, mainVars, chanVars, groupVars, workerVars,
                    writerVars, outVars, emitLog >>

\* files <- p on a channel that takes every send at once.
ScanSendUnbounded ==
    /\ Running /\ scanPc = "send"
    /\ IF filesClosed
       THEN /\ Panic("send on closed channel")
            /\ UNCHANGED << files, scanPc, emitLog >>
       ELSE /\ files' = Append(files, scanCur)
            /\ emitLog' = Append(emitLog, scanCur)
            /\ scanPc' = "count"
            /\ UNCHANGED << procState, panicMsg >>
    /\ UNCHANGED << resVars, procs, mainVars, walked, visits, visited, scanCur,
                    filesClosed, results,
                    resultsClosed, stats, groupVars, workerVars, writerVars, outVars >>

\* files <- p, which blocks while the buffer is full.
ScanSend ==
    /\ Running /\ scanPc = "send"
    /\ IF filesClosed
       THEN /\ Panic("send on closed channel")
            /\ UNCHANGED << files, scanPc, emitLog >>
       ELSE /\ Len(files) < QueueCap
            /\ files' = Append(files, scanCur)
            /\ emitLog' = Append(emitLog, scanCur)
            /\ scanPc' = "count"
            /\ UNCHANGED << procState, panicMsg >>
    /\ UNCHANGED << resVars, procs, mainVars, walked, visits, visited, scanCur,
                    filesClosed, results,
                    resultsClosed, stats, groupVars, workerVars, writerVars, outVars >>

\* The walker without its atomic.AddInt32(&stats.Relevant, 1).
ScanCountOmitted ==
    /\ Running /\ scanPc = "count"
    /\ scanPc' = "walk"
    /\ scanCur' = ""
    /\ UNCHANGED << resVars, procs, procState, panicMsg, mainVars, walked, visits,
                    visited, emitLog,
                    chanVars, stats, groupVars, workerVars, writerVars, outVars >>

\* atomic.AddInt32(&stats.Relevant, 1), after the send; the walker returns.
ScanCount ==
    /\ Running /\ scanPc = "count"
    /\ stats' = [stats EXCEPT !.Relevant = @ + 1]
    /\ scanPc' = "walk"
    /\ scanCur' = ""
    /\ UNCHANGED << resVars, procs, procState, panicMsg, mainVars, walked, visits,
                    visited, emitLog, chanVars,
                    groupVars, workerVars, writerVars, outVars >>

\* The scanner goroutine without its close(files).
ScanCloseOmitted ==
    /\ Running /\ scanPc = "walk"
    /\ scanPc' = "done"
    /\ UNCHANGED << resVars, procs, procState, panicMsg, mainVars, walked, visits,
                    visited, emitLog,
                    scanCur, chanVars, stats, groupVars, workerVars, writerVars,
                    outVars >>

\* Walk returns nil (the walker never returns an error) and the goroutine
\* closes files.
ScanClose ==
    /\ Running /\ scanPc = "walk"
    /\ IF filesClosed
       THEN /\ Panic("close of closed channel")
            /\ UNCHANGED << filesClosed, scanPc >>
       ELSE /\ filesClosed' = TRUE
            /\ scanPc' = "done"
            /\ UNCHANGED << procState, panicMsg >>
    /\ UNCHANGED << resVars, procs, mainVars, walked, visits, visited, emitLog,
                    scanCur, files, results,
                    resultsClosed,
                    stats, groupVars, workerVars, writerVars, outVars >>

----------------------------------------------------------------------------
(* A worker: processFiles. *)

\* A receive that leaves the path in the channel.
WorkerRecvNoDequeue(w) ==
    /\ Running /\ wpc[w] = "recv" /\ files # <<>>
    /\ wpath' = [wpath EXCEPT ![w] = Head(files)]
    /\ files' = files
    /\ recvLog' = Append(recvLog, Head(files))
    /\ wpc' = [wpc EXCEPT ![w] = "extract"]
    /\ UNCHANGED << resVars, procs, procState, panicMsg, mainVars, scanVars, filesClosed,
                    results, resultsClosed, stats, groupVars, wres, wvars, sentLog,
                    writerVars, outVars >>

\* for p := range files: the next path of the channel.
WorkerRecv(w) ==
    /\ Running /\ wpc[w] = "recv" /\ files # <<>>
    /\ wpath' = [wpath EXCEPT ![w] = Head(files)]
    /\ files' = Tail(files)
    /\ recvLog' = Append(recvLog, Head(files))
    /\ wpc' = [wpc EXCEPT ![w] = "extract"]
    /\ UNCHANGED << resVars, procs, procState, panicMsg, mainVars, scanVars, filesClosed,
                    results, resultsClosed, stats, groupVars, wres, wvars, sentLog,
                    writerVars, outVars >>

\* The range loop ends on the closed and empty channel; defer wg.Done().
WorkerExit(w) ==
    /\ Running /\ wpc[w] = "recv" /\ files = <<>> /\ filesClosed
    /\ ingroup' = ingroup - 1
    /\ wpc' = [wpc EXCEPT ![w] = "done"]
    /\ UNCHANGED << resVars, procs, procState, panicMsg, mainVars, scanVars, chanVars, stats,
                    outgroup, wpath, wres, wvars, recvLog, sentLog, writerVars,
                    outVars >>

\* The test of the default case with && in the place of ||.
ClassifyBoth(e) ==
    IF HasDateCreated(e) /\ (HasKeywords(e) /\ HasDescription(e))
    THEN [counter |-> "Accept", status |-> "Accepted", reason |-> ""]
    ELSE [counter |-> "Reject", status |-> "Incomplete",
          reason |-> "Minimum metadata not provided"]

\* The test of the default case of processFiles and what each branch sets.
Classify(e) ==
    IF HasDateCreated(e) /\ (HasKeywords(e) \/ HasDescription(e))
    THEN [counter |-> "Accept", status |-> "Accepted", reason |-> ""]
    ELSE [counter |-> "Reject", status |-> "Incomplete",
          reason |-> "Minimum metadata not provided"]

\* The counter the switch of processFiles increments for e, err.
CounterFor(r) == IF r.err # Nil THEN "Reject" ELSE Classify(r.e).counter

\* status and reason assigned in the default case only while they are still
\* empty.
VarsAfterFirstOnly(r, v) ==
    IF r.err # Nil \/ v.status # "" THEN v
    ELSE [status |-> Classify(r.e).status, reason |-> Classify(r.e).reason]

\* status and reason after the switch: assigned in the default case only.
VarsAfter(r, v) ==
    IF r.err # Nil THEN v
    ELSE [status |-> Classify(r.e).status, reason |-> Classify(r.e).reason]

\* The row the MakeErrorRow or MakeRow call of the switch builds.
RowFor(p, r, v) ==
    IF r.err # Nil THEN MakeErrorRow(p, r.err) ELSE MakeRow(r.e, p, v.status, v.reason)

\* The values status and reason take in a run.
VarValues ==
    {[status |-> "", reason |-> ""]}
    \cup {VarsAfter(Extracted[p], [status |-> "", reason |-> ""]) : p \in Paths}

\* The switch of processFiles for each path of the catalogue and each value
\* of status and reason it may start from: the counter it increments, and
\* status and reason after it.
Switch ==
    [p \in Paths |->
        [v \in VarValues |->
            [counter |-> CounterFor(Extracted[p]), vars |-> VarsAfter(Extracted[p], v)]]]

\* The row the switch builds for each path of the catalogue from e, err and
\* from status and reason.
Rows == [p \in Paths |-> [v \in VarValues |-> RowFor(p, Extracted[p], v)]]

\* e, err := getExifData(p), which panics on a line that is too short, and
\* the switch up to the call that builds the row: one atomic increment, and
\* status and reason in the default case.
WorkerExtract(w) ==
    /\ Running /\ wpc[w] = "extract"
    /\ IF Extracted[wpath[w]].panic
       THEN /\ Panic("slice bounds out of range")
            /\ UNCHANGED << wres, wpc, stats, wvars >>
       ELSE /\ wres' = [wres EXCEPT ![w] = [e |-> Extracted[wpath[w]].e,
                                            err |-> Extracted[wpath[w]].err]]
            /\ wpc' = [wpc EXCEPT ![w] = "send"]
            /\ stats' = [stats EXCEPT ![Switch[wpath[w]][wvars[w]].counter] = @ + 1]
            /\ wvars' = [wvars EXCEPT ![w] = Switch[wpath[w]][@].vars]
            /\ UNCHANGED << procState, panicMsg >>
    /\ UNCHANGED << resVars, procs, mainVars, scanVars, chanVars, groupVars, wpath, recvLog,
                    sentLog, writerVars, outVars >>

\* The row worker w is about to send, built from wpath[w], from wres[w],
\* which is what getExifData returned for wpath[w], and from wvars[w].
WorkerRow(w) == Rows[wpath[w]][wvars[w]]

\* c <- row, which blocks while the buffer is full; the iteration ends and
\* its p, e and err go out of scope.
WorkerSend(w) ==
    /\ Running /\ wpc[w] = "send"
    /\ IF resultsClosed
       THEN /\ Panic("send on closed channel")
            /\ UNCHANGED << results, wpc, wpath, wres, sentLog >>
       ELSE /\ Len(results) < QueueCap
            /\ results' = Append(results, WorkerRow(w))
            /\ sentLog' = Append(sentLog, WorkerRow(w))
            /\ wpc' = [wpc EXCEPT ![w] = "recv"]
            /\ wpath' = [wpath EXCEPT ![w] = ""]
            /\ wres' = [wres EXCEPT ![w] = [e |-> newExif, err |-> Nil]]
            /\ UNCHANGED << procState, panicMsg >>
    /\ UNCHANGED << resVars, procs, mainVars, scanVars, files, filesClosed, resultsClosed,
                    stats, groupVars, wvars, recvLog, writerVars, outVars >>

----------------------------------------------------------------------------
(* The writer: makeOutput. *)

\* for result := range c
WriterRecv ==
    /\ Running /\ writerPc = "recv" /\ results # <<>>
    /\ writerRow' = Head(results)
    /\ results' = Tail(results)
    /\ writerPc' = "write"
    /\ UNCHANGED << resVars, procs, procState, panicMsg, mainVars, scanVars, files,
                    filesClosed, resultsClosed, stats, groupVars, workerVars, outVars >>

\* out.Write(result); the iteration ends.
WriterWrite ==
    /\ Running /\ writerPc = "write"
    /\ outBuf' = Append(outBuf, writerRow)
    /\ writerRow' = <<>>
    /\ writerPc' = "recv"
    /\ UNCHANGED << resVars, procs, procState, panicMsg, mainVars, scanVars, chanVars, stats,
                    groupVars, workerVars, report >>

\* The range loop ends on the closed and empty channel; wg.Done().
WriterExit ==
    /\ Running /\ writerPc = "recv" /\ results = <<>> /\ resultsClosed
    /\ outgroup' = outgroup - 1
    /\ writerPc' = "done"
    /\ UNCHANGED << resVars, procs, procState, panicMsg, mainVars, scanVars, chanVars, stats,
                    ingroup, workerVars, writerRow, outVars >>

----------------------------------------------------------------------------
(* main *)

\* os.Stat(*dir): an error is fatal.
MainStat ==
    /\ Running /\ mainPc = "stat"
    /\ \E ok \in BOOLEAN :
         IF ok THEN mainPc' = "walk" /\ UNCHANGED procState
         ELSE procState' = "fatal" /\ UNCHANGED mainPc
    /\ UNCHANGED << resVars, procs, panicMsg, spawned, summary, scanVars, chanVars, stats,
                    groupVars, workerVars, writerVars, outVars >>

\* go func() { filepath.Walk ... close(files) }()
MainGoWalk ==
    /\ Running /\ mainPc = "walk"
    /\ scanPc' = "walk"
    /\ mainPc' = "spawn"
    /\ UNCHANGED << resVars, procs, procState, panicMsg, spawned, summary, walked,
                    visits, visited, emitLog, scanCur,
                    chanVars, stats, groupVars, workerVars, writerVars, outVars >>

\* The loop of main starting one worker more than -p asks for.
MainSpawnOneMore ==
    /\ Running /\ mainPc = "spawn" /\ spawned <= procs /\ spawned < MaxProcs
    /\ ingroup' = ingroup + 1
    /\ wpc' = [wpc EXCEPT ![spawned + 1] = "recv"]
    /\ spawned' = spawned + 1
    /\ UNCHANGED << resVars, procs, procState, panicMsg, mainPc, summary, scanVars, chanVars,
                    stats, outgroup, wpath, wres, wvars, recvLog, sentLog,
                    writerVars, outVars >>

\* One iteration of the worker loop: ingroup.Add(1); go processFiles(...)
MainSpawn ==
    /\ Running /\ mainPc = "spawn" /\ spawned < procs
    /\ ingroup' = ingroup + 1
    /\ wpc' = [wpc EXCEPT ![spawned + 1] = "recv"]
    /\ spawned' = spawned + 1
    /\ UNCHANGED << resVars, procs, procState, panicMsg, mainPc, summary, scanVars, chanVars,
                    stats, outgroup, wpath, wres, wvars, recvLog, sentLog,
                    writerVars, outVars >>

\* The loop is over; the output is opened (os.Create fails fatally), the
\* header is written and flushed.
MainHeader ==
    /\ Running /\ mainPc = "spawn" /\ ~(spawned < procs)
    /\ \E ok \in BOOLEAN :
         IF ok
         THEN /\ report' = report \o outBuf \o <<csvHeader>>
              /\ outBuf' = <<>>
              /\ mainPc' = "writer"
              /\ UNCHANGED procState
         ELSE /\ procState' = "fatal"
              /\ UNCHANGED << report, outBuf, mainPc >>
    /\ UNCHANGED << resVars, procs, panicMsg, spawned, summary, scanVars, chanVars, stats,
                    groupVars, workerVars, writerVars >>

\* main starting the writer without outgroup.Add(1).
MainGoWriterNoAdd ==
    /\ Running /\ mainPc = "writer"
    /\ writerPc' = "recv"
    /\ mainPc' = "waitIn"
    /\ UNCHANGED << resVars, procs, procState, panicMsg, spawned, summary, scanVars,
                    chanVars, stats, groupVars, workerVars, writerRow, outVars >>

\* outgroup.Add(1); go func() { makeOutput(results, out, &outgroup) }()
MainGoWriter ==
    /\ Running /\ mainPc = "writer"
    /\ outgroup' = outgroup + 1
    /\ writerPc' = "recv"
    /\ mainPc' = "waitIn"
    /\ UNCHANGED << resVars, procs, procState, panicMsg, spawned, summary, scanVars, chanVars,
                    stats, ingroup, workerVars, writerRow, outVars >>

\* main without its ingroup.Wait().
NoIngroupWait == TRUE

\* ingroup.Wait() returns when the counter is zero.
IngroupWait == ingroup = 0

\* ingroup.Wait(); close(results)
MainCloseResults ==
    /\ Running /\ mainPc = "waitIn" /\ IngroupWait
    /\ IF resultsClosed
       THEN /\ Panic("close of closed channel")
            /\ UNCHANGED << resultsClosed, mainPc >>
       ELSE /\ resultsClosed' = TRUE
            /\ mainPc' = "waitOut"
            /\ UNCHANGED << procState, panicMsg >>
    /\ UNCHANGED << resVars, procs, spawned, summary, scanVars, files, filesClosed, results,
                    stats, groupVars, workerVars, writerVars, outVars >>

\* main without its outgroup.Wait().
NoOutgroupWait == TRUE

\* outgroup.Wait() returns when the counter is zero.
OutgroupWait == outgroup = 0

\* outgroup.Wait(); out.Flush(); f.Close()
MainFlush ==
    /\ Running /\ mainPc = "waitOut" /\ OutgroupWait
    /\ report' = report \o outBuf
    /\ outBuf' = <<>>
    /\ mainPc' = "summary"
    /\ UNCHANGED << resVars, procs, procState, panicMsg, spawned, summary, scanVars, chanVars,
                    stats, groupVars, workerVars, writerVars >>

\* The first argument of the log.Printf call: a plain read of stats.Total.
MainReadTotal ==
    /\ Running /\ mainPc = "summary"
    /\ summary' = << stats.Total >>
    /\ mainPc' = "log"
    /\ UNCHANGED << resVars, procs, procState, panicMsg, spawned, scanVars, chanVars,
                    stats, groupVars, workerVars, writerVars, outVars >>

\* The reads of the other three counters and the log.Printf call itself;
\* main returns and the process ends.
MainSummary ==
    /\ Running /\ mainPc = "log"
    /\ summary' = summary \o << stats.Relevant, stats.Reject, stats.Accept >>
    /\ mainPc' = "done"
    /\ procState' = "exited"
    /\ UNCHANGED << resVars, procs, panicMsg, spawned, scanVars, chanVars, stats, groupVars,
                    workerVars, writerVars, outVars >>

----------------------------------------------------------------------------
ScannerStep == ScanVisit \/ ScanSend \/ ScanCount \/ ScanClose

WorkerStep(w) ==
    WorkerRecv(w) \/ WorkerExit(w) \/ WorkerExtract(w) \/ WorkerSend(w)

WriterStep == WriterRecv \/ WriterWrite \/ WriterExit

MainStep ==
    \/ MainStat \/ MainGoWalk \/ MainSpawn \/ MainHeader \/ MainGoWriter
    \/ MainCloseResults \/ MainFlush \/ MainReadTotal \/ MainSummary

Next == MainStep \/ ScannerStep \/ WriterStep \/ \E w \in Workers : WorkerStep(w)

Spec == Init /\ [][Next]_vars

\* The Go scheduler runs every goroutine that can take a step.
FairSpec ==
    /\ Spec
    /\ WF_vars(MainStep)
    /\ WF_vars(ScannerStep)
    /\ WF_vars(WriterStep)
    /\ \A w \in Workers : WF_vars(WorkerStep(w))

(***************************************************************************)
(* One iteration of processFiles on its own: a record as getExifData may   *)
(* return it, resolved by the record's methods and made into its row.      *)
(***************************************************************************)
\* The values the date tags take: none, a date, a time with a zone alone,
\* a date and time, the all-zero date cameras write, a fraction of a second.
IptcDates == {"", "2015:01:09"}
IptcTimes == {"", "01:32:16-08:00"}
ExifDates == {"", "2003:09:01 18:28:44", "0000:00:00 00:00:00"}
XmpDates == {"", "2016:02:29 10:00:00.50"}

\* The values of the tags behind Keywords and Description.
IptcKeywords == {"", "sunset"}
XmpSubjects == {"", "rain"}
Captions == {"", "Row of power lines"}

Records ==
    { [Data |-> ("FileName" :> "image.jpg") @@ ("FileType" :> "JPEG")
                @@ ("MIMEType" :> "image/jpeg"),
       IPTC |-> ("DateCreated" :> d) @@ ("TimeCreated" :> t) @@ ("Keywords" :> k)
                @@ ("Caption-Abstract" :> c),
       Exif |-> ("DateTimeOriginal" :> x),
       XMP |-> ("DateCreated" :> m) @@ ("Subject" :> s)] :
      d \in IptcDates, t \in IptcTimes, x \in ExifDates, m \in XmpDates,
      k \in IptcKeywords, s \in XmpSubjects, c \in Captions }

\* The errors cmd.Run() returns: the tool failed, the tool is not installed.
ExtractErrors == {"exit status 1", "exec: exiftool: executable file not found in $PATH"}

\* status and reason as an earlier iteration of the loop may have left them.
StaleVars ==
    { <<"", "">>, <<"Accepted", "">>, <<"Incomplete", "Minimum metadata not provided">> }

Inputs ==
    { [p |-> "d/image.jpg", e |-> e, err |-> Nil, status |-> v[1], reason |-> v[2]] :
      e \in Records, v \in StaleVars }
    \cup
    { [p |-> "d/image.jpg", e |-> newExif, err |-> x, status |-> v[1],
       reason |-> v[2]] : x \in ExtractErrors, v \in StaleVars }

InitRes ==
    /\ procs = 0
    /\ Constructed
    /\ rIn \in Inputs
    /\ rOut = NoOutput

pipeVars == << procs, procState, panicMsg, mainVars, scanVars, chanVars, stats,
               groupVars, workerVars, writerVars, outVars >>

\* e.DateCreated()
ResolveDate ==
    /\ rOut.date = <<>>
    /\ rOut' = [rOut EXCEPT !.date = DateCreated(rIn.e)]
    /\ UNCHANGED << rIn, pipeVars >>

\* The body of the range loop of processFiles for p, e, err: the counter it
\* increments and the row it sends.
ProcessRecord ==
    /\ rOut.row = <<>>
    /\ LET r == [e |-> rIn.e, err |-> rIn.err]
           v == [status |-> rIn.status, reason |-> rIn.reason]
       IN  rOut' = [rOut EXCEPT !.counter = CounterFor(r),
                                !.row = RowFor(rIn.p, r, VarsAfter(r, v))]
    /\ UNCHANGED << rIn, pipeVars >>

NextRes == ResolveDate \/ ProcessRecord

SpecRes == InitRes /\ [][NextRes]_vars

(***************************************************************************)
(* The resolution methods on their own: a record as getExifData may return *)
(* it, and what each method and each Has method returns for it.            *)
(***************************************************************************)
\* The map that holds k when v is not empty: getExifData stores a tag only
\* when the tool printed it.
Tag(k, v) == IF v = "" THEN EmptyMap ELSE (k :> v)

\* The five identifier tags, as group and key, in the order NasaID reads them.
IdTags ==
    << <<"IPTC", "OriginalTransmissionReference">>, <<"IPTC", "JobID">>,
       <<"Exif", "ImageUniqueID">>, <<"XMP", "Identifier">>,
       <<"XMP", "TransmissionReference">> >>

\* The tags of group g among IdTags whose index is in set, each holding an
\* identifier of its own: "anid", a colon and the key.
IdMap(g, set) ==
    [k \in {IdTags[i][2] : i \in {j \in set : IdTags[j][1] = g}} |-> "anid:" \o k]

\* Records that differ in the file name (none, an ordinary one, one that is
\* all extension, one with two dots, one with no dot), in the MIMEType the
\* tool reports, in XMP Format and in which of the identifier tags are set.
IdRecords ==
    { [Data |-> Tag("FileName", n) @@ ("FileType" :> "JPEG") @@ ("MIMEType" :> m),
       IPTC |-> IdMap("IPTC", set),
       Exif |-> IdMap("Exif", set),
       XMP |-> IdMap("XMP", set) @@ Tag("Format", f)] :
      n \in {"", "aname.jpg", ".jpg", "archive.tar.gz", "aname"},
      m \in {"image/jpeg", "audio/mpeg", "application/pdf", "text/xml"},
      f \in {"", "image/jpeg", "application/json", "application/pdf"},
      set \in SUBSET (1..5) }

\* Records that differ in the tags behind the other fields.
TextRecords ==
    { [Data |-> ("FileName" :> "aname.jpg") @@ ("FileType" :> "JPEG")
                @@ ("MIMEType" :> "image/jpeg"),
       IPTC |-> Tag("Headline", t[1]) @@ Tag("City", l[1]) @@ Tag("Keywords", k)
                @@ Tag("TimeCreated", d[1]),
       Exif |-> Tag("Artist", a) @@ Tag("ImageDescription", c)
                @@ Tag("DateTimeOriginal", d[2]),
       XMP |-> Tag("Title", t[2]) @@ Tag("State", l[2]) @@ Tag("Country", l[3])] :
      t \in {<<"", "">>, <<"Headline", "">>, <<"", "Title">>},
      l \in {<<"", "", "">>, <<"Houston", "", "">>, <<"", "Texas", "USA">>},
      k \in IptcKeywords, c \in Captions, a \in {"", "Photographer"},
      d \in {<<"", "">>, <<"", "2003:09:01 18:28:44">>,
             <<"", "0000:00:00 00:00:00">>, <<"01:32:16-08:00", "">>} }

\* Records that differ in which tags of the Title, Description, Keywords and
\* Photographer chains are set; a tag that is set holds its group and key.
ChainRecords ==
    LET V(g, k, on) == IF on THEN (k :> (g \o ":" \o k)) ELSE EmptyMap
    IN  { [Data |-> ("FileName" :> "aname.jpg") @@ ("FileType" :> "JPEG")
                    @@ ("MIMEType" :> "image/jpeg"),
           IPTC |-> V("IPTC", "ObjectName", 1 \in s) @@ V("IPTC", "Headline", 2 \in s)
                    @@ V("IPTC", "By-line", 1 \in s)
                    @@ V("IPTC", "Caption-Abstract", 1 \in u)
                    @@ V("IPTC", "Keywords", 1 \in u),
           Exif |-> V("Exif", "Artist", 2 \in s)
                    @@ V("Exif", "ImageDescription", 2 \in u),
           XMP |-> V("XMP", "Title", 3 \in s) @@ V("XMP", "Artist", 3 \in s)
                   @@ V("XMP", "Description", 3 \in u)
                   @@ V("XMP", "Subject", 2 \in u)] :
          s \in SUBSET {1, 2, 3}, u \in SUBSET {1, 2, 3} }

InitFields ==
    /\ procs = 0
    /\ Constructed
    /\ rIn \in {[e |-> e] : e \in IdRecords \cup TextRecords \cup ChainRecords}
    /\ rOut = [fields |-> <<>>, has |-> <<>>]

\* The value each resolution method returns for the record.
ResolveFields ==
    /\ rOut.fields = <<>>
    /\ rOut' = [rOut EXCEPT !.fields =
                   [NasaID |-> NasaID(rIn.e), Title |-> Title(rIn.e),
                    Description |-> Description(rIn.e), Keywords |-> Keywords(rIn.e),
                    Location |-> Location(rIn.e), MediaType |-> MediaType(rIn.e),
                    FileFormat |-> FileFormat(rIn.e),
                    Photographer |-> Photographer(rIn.e),
                    DateCreated |-> DateCreated(rIn.e)]]
    /\ UNCHANGED << rIn, pipeVars >>

\* The value each Has method returns for the record.
ResolvePredicates ==
    /\ rOut.has = <<>>
    /\ rOut' = [rOut EXCEPT !.has =
                   [NasaID |-> HasNasaID(rIn.e), Title |-> HasTitle(rIn.e),
                    Description |-> HasDescription(rIn.e),
                    Keywords |-> HasKeywords(rIn.e), Location |-> HasLocation(rIn.e),
                    MediaType |-> HasMediaType(rIn.e),
                    FileFormat |-> HasFileFormat(rIn.e),
                    Photographer |-> HasPhotographer(rIn.e),
                    DateCreated |-> HasDateCreated(rIn.e)]]
    /\ UNCHANGED << rIn, pipeVars >>

NextFields == ResolveFields \/ ResolvePredicates

SpecFields == InitFields /\ [][NextFields]_vars

(***************************************************************************)
(* getExifData on its own: what cmd.Run() returned and captured, and what  *)
(* the call makes of it.                                                   *)
(***************************************************************************)
\* What the tool may leave in the buffer: nothing, the file lines, then one
\* tag or none, then a last line: a tag with a value, a tag with an empty
\* value, a line that is shorter than the columns, a blank line.
ToolOutputs ==
    { head \o mid \o last :
      head \in {"", FileLines("image.jpg", "JPEG", "image/jpeg")},
      mid \in {"", ToolLine("EXIF", "DateTimeOriginal", "2003:09:01 18:28:44"),
               ToolLine("IPTC", "Keywords", ""),
               ToolLine("IPTC", "Caption-Abstract", "Row of power lines")},
      last \in {"", ToolLine("XMP", "Subject", "rain"), ToolLine("PDF", "Keywords", ""),
                "Warning: Bad IFD0 directory\n", "\n", "[ExifTool]" \o Spaces(45) \o "\n"} }

ToolRuns == { [err |-> x, out |-> o] : x \in {Nil} \cup ExtractErrors, o \in ToolOutputs }

InitExtract ==
    /\ procs = 0
    /\ Constructed
    /\ rIn \in {[run |-> r] : r \in ToolRuns}
    /\ rOut = [res |-> <<>>]

\* e, err := getExifData(p)
Extract ==
    /\ rOut.res = <<>>
    /\ rOut' = [rOut EXCEPT !.res = getExifData(rIn.run)]
    /\ UNCHANGED << rIn, pipeVars >>

SpecExtract == InitExtract /\ [][Extract]_vars

(***************************************************************************)
(* parseDate on its own: a date string as the tool prints it, put together *)
(* from a date, a time, a zone and the white space around it.              *)
(***************************************************************************)
\* Dates: none, two dates, a month out of range, another separator.  Times:
\* none, a time, one with a fraction, an hour out of range, a time without
\* seconds.  Zones: none, an offset of either sign, the letter Z.
DateStrings ==
    { [date |-> d, time |-> t, zone |-> z, pad |-> s] :
      d \in {"", "2015:01:09", "2016:02:29", "2015:13:09", "2015-01-09"},
      t \in {"", " 01:32:16", " 01:32:16.90", " 24:00:00", " 01:32"},
      z \in {"", "-08:00", "+05:30", "Z"},
      s \in {"", " "} }

InitDates ==
    /\ procs = 0
    /\ Constructed
    /\ rIn \in DateStrings
    /\ rOut = [parsed |-> <<>>]

\* t, err := parseDate(d)
ParseDate ==
    /\ rOut.parsed = <<>>
    /\ rOut' = [rOut EXCEPT !.parsed =
                   parseDate(rIn.pad \o rIn.date \o rIn.time \o rIn.zone \o rIn.pad)]
    /\ UNCHANGED << rIn, pipeVars >>

SpecDates == InitDates /\ [][ParseDate]_vars

(***************************************************************************)
(* Properties of the pipeline.                                             *)
(***************************************************************************)
\* The number of rows sent so far whose path cell is p.
RowsFor(p) == Cardinality({i \in 1..Len(sentLog) : sentLog[i][1] = p})

\* Some worker has received p and not yet sent its row.
InHand(p) == \E w \in Workers : wpath[w] = p /\ wpc[w] \in {"extract", "send"}

\* main returned after the summary, with every goroutine at its end.
NormalEnd ==
    /\ mainPc = "done" /\ scanPc = "done" /\ filesClosed /\ resultsClosed
    /\ writerPc = "done"
    /\ \A w \in 1..procs : wpc[w] = "done"

\* The process was ended by log.Fatal or by a run-time panic.
Aborted == procState \in {"fatal", "panic"}

\* C1: in a run with P >= 1 that neither a fatal error of main nor a failure
\* of the scanner cut short, every path a worker has received has exactly one
\* row sent for it, or none yet while a worker that is still running holds
\* it; never two, and never none once no worker holds it.
C1_OneRowPerPath ==
    (procs >= 1 /\ procState # "fatal" /\ panicMsg # "nil pointer dereference") =>
        \A i \in 1..Len(recvLog) :
            \/ RowsFor(recvLog[i]) = 1 /\ ~InHand(recvLog[i])
            \/ RowsFor(recvLog[i]) = 0 /\ InHand(recvLog[i]) /\ Running

\* C2: results is closed only when every one of the P workers has returned,
\* no goroutine ever sends on or closes a closed channel, and files is closed
\* by the scanner alone, at its end.
C2_Barrier ==
    /\ resultsClosed => \A w \in 1..procs : wpc[w] = "done"
    /\ panicMsg \notin {"send on closed channel", "close of closed channel"}
    /\ filesClosed => scanPc = "done"

C2_Witness ==
    /\ resultsClosed /\ filesClosed /\ procs = MaxProcs
    /\ Len(sentLog) > QueueCap

\* C3: once main is past its final flush, the report holds the header and
\* every row any worker sent, results is closed and empty, and the writer has
\* returned; the summary is logged only in such a state.
C3_Drained ==
    /\ mainPc \in {"summary", "log", "done"} =>
         /\ report = <<csvHeader>> \o sentLog
         /\ outBuf = <<>> /\ writerRow = <<>>
         /\ results = <<>> /\ resultsClosed
         /\ writerPc = "done"
    /\ summary # <<>> => mainPc \in {"log", "done"}

C3_Witness == mainPc = "done" /\ Len(summary) = 4 /\ Len(sentLog) > QueueCap

\* C4: under fair scheduling a run with P >= 1 workers ends, either with main
\* returning after every goroutine reached its end, or aborted by log.Fatal
\* or a panic; in particular it never stops in a state where goroutines wait
\* on each other.
C4_Terminates == (procs >= 1) => <>(NormalEnd \/ Aborted)

C4_Witness == NormalEnd /\ procs >= 1 /\ Len(recvLog) > QueueCap

\* C5: when main has returned, Relevant <= Total and
\* Accept + Reject <= Relevant.
C5_StatsAtEnd ==
    mainPc = "done" =>
        /\ stats.Relevant <= stats.Total
        /\ stats.Accept + stats.Reject <= stats.Relevant

C5_Witness ==
    /\ mainPc = "done" /\ stats.Accept >= 1 /\ stats.Reject >= 1
    /\ stats.Total > stats.Relevant

\* C6: Relevant <= Total and Accept + Reject <= Relevant in every state of a
\* run.
C6_StatsAlways ==
    /\ stats.Relevant <= stats.Total
    /\ stats.Accept + stats.Reject <= stats.Relevant

\* The paths among those Walk has handed the walker that are files of an
\* accepted type, in the order of the walk.
FilesToProcess ==
    SelectSeq(visited,
              LAMBDA p : /\ \E i \in 1..Len(Catalogue) :
                              Catalogue[i].path = p /\ Catalogue[i].fi = "file"
                         /\ TypeByExtension(Ext(p)) \in mimeTypes)

\* C13: no worker is ended by the output of the tool, and every path whose
\* extraction failed and that no worker holds any more has exactly one row,
\* a "Rejected" one, and has been counted into Reject.
C13_FailuresBecomeRows ==
    /\ panicMsg # "slice bounds out of range"
    /\ \A i \in 1..Len(recvLog) :
         (Extracted[recvLog[i]].err # Nil /\ ~InHand(recvLog[i])) =>
             /\ RowsFor(recvLog[i]) = 1
             /\ \A k \in 1..Len(sentLog) :
                  sentLog[k][1] = recvLog[i] => sentLog[k][2] = "Rejected"
             /\ stats.Reject >= 1

\* C16: when the process is ended by a fatal condition, the root directory
\* failing os.Stat, the output file failing to open, or Walk handing the
\* walker an entry it could not Lstat, nothing has been written to the
\* report, neither the header nor a row.
C16_FatalBeforeOutput ==
    (procState = "fatal" \/ panicMsg = "nil pointer dereference") =>
        report = <<>> /\ outBuf = <<>>

\* The row each path's extraction result determines: the error row when
\* getExifData returned an error, else the row of the record with the status
\* and reason of its classification.
ExpectedRows ==
    [p \in Paths |->
        IF Extracted[p].err # Nil THEN MakeErrorRow(p, Extracted[p].err)
        ELSE MakeRow(Extracted[p].e, p, Classify(Extracted[p].e).status,
                     Classify(Extracted[p].e).reason)]

C18_WalkerEffects ==
    /\ stats.Total =
         Cardinality({i \in 1..Len(visited) :
                          \E k \in 1..Len(Catalogue) :
                              /\ Catalogue[k].path = visited[i]
                              /\ Catalogue[k].fi = "file"})
    /\ scanPc \in {"idle", "walk", "done"} =>
         emitLog = FilesToProcess /\ stats.Relevant = Len(emitLog)
    /\ scanPc = "send" =>
         /\ emitLog = SubSeq(FilesToProcess, 1, Len(FilesToProcess) - 1)
         /\ stats.Relevant = Len(emitLog)
    /\ scanPc = "count" =>
         emitLog = FilesToProcess /\ stats.Relevant = Len(emitLog) - 1

C18_Witness ==
    /\ scanPc = "done" /\ Len(emitLog) >= 2 /\ stats.Total > stats.Relevant
    /\ \E i \in 1..Len(visited) : visited[i] = "d"
    /\ \E i \in 1..Len(visited) : visited[i] = "d/notes.txt"

\* C21: the output holds the header before it holds any row, and each change
\* of the output is one of three steps: main writing and flushing the header
\* while the writer has not been started, the writer writing the row it
\* took while main waits, or main flushing after the writer has returned.
\* No step of a worker changes the output.
C21_OutputOwnership ==
    /\ []((outBuf # <<>> \/ report # <<>>) => (report # <<>> /\ report[1] = csvHeader))
    /\ [][(<<outBuf, report>>' # <<outBuf, report>>) =>
            /\ wpc' = wpc
            /\ \/ /\ mainPc = "spawn" /\ mainPc' = "writer"
                  /\ writerPc = "idle" /\ writerPc' = "idle"
                  /\ report' = <<csvHeader>> /\ outBuf' = <<>>
               \/ /\ writerPc = "write" /\ writerPc' = "recv"
                  /\ mainPc \in {"waitIn", "waitOut"} /\ mainPc' = mainPc
                  /\ outBuf' = Append(outBuf, writerRow) /\ report' = report
               \/ /\ mainPc = "waitOut" /\ mainPc' = "summary"
                  /\ writerPc = "done" /\ writerPc' = "done"
                  /\ report' = report \o outBuf /\ outBuf' = <<>>]_vars

C21_Witness ==
    /\ mainPc = "done" /\ Len(report) >= 3 /\ report[1] = csvHeader
    /\ report[2][1] = "d/image.jpg"

\* C22: neither channel ever holds more than its capacity (QueueCap stands
\* for the 64 of make(chan, 64)); the paths the scanner has sent and whose
\* row the writer has not written are those in files, those a worker holds,
\* the rows in results and the row the writer holds, so at most
\* QueueCap + P + QueueCap + 1; while results is full no worker that has a
\* row to send can take a step, and while files is full the scanner that has
\* a path to send cannot take a step.
C22_Backpressure ==
    LET written  == Len(outBuf) + Len(report) - (IF report = <<>> THEN 0 ELSE 1)
        holding  == Cardinality({w \in Workers : wpc[w] \in {"extract", "send"}})
        inFlight == Len(emitLog) - written
    IN  /\ Len(files) <= QueueCap
        /\ Len(results) <= QueueCap
        /\ inFlight = Len(files) + holding + Len(results)
                        + (IF writerPc = "write" THEN 1 ELSE 0)
        /\ holding <= (IF procs > 0 THEN procs ELSE 0)
        /\ inFlight <= QueueCap + procs + QueueCap + 1
        /\ (Len(results) = QueueCap /\ ~resultsClosed) =>
              \A w \in Workers : wpc[w] = "send" => ~ENABLED WorkerStep(w)
        /\ (Len(files) = QueueCap /\ ~filesClosed /\ scanPc = "send") =>
              ~ENABLED ScannerStep

\* The writer has not taken the row in the full results, the one worker
\* waits to send, files is full and the scanner waits to send.
C22_Witness ==
    /\ Running /\ procs = 1 /\ writerPc = "recv"
    /\ Len(results) = QueueCap /\ wpc[1] = "send" /\ ~ENABLED WorkerStep(1)
    /\ Len(files) = QueueCap /\ scanPc = "send" /\ ~ENABLED ScannerStep

\* C26: in a run with P >= 1 that neither a fatal error of main nor a failure
\* of the scanner cut short, every path a worker has received has incremented
\* exactly one of Accept and Reject by one, or none yet while a worker that is
\* still running is extracting it: Accept counts the received paths classified
\* Accepted, Reject those whose extraction failed or that are classified
\* Incomplete, and no received path is left counted in neither.
C26_OneCounterPerPath ==
    (procs >= 1 /\ procState # "fatal" /\ panicMsg # "nil pointer dereference") =>
        LET Extracting(p) == \E w \in Workers : wpath[w] = p /\ wpc[w] = "extract"
            counted == {i \in 1..Len(recvLog) : ~Extracting(recvLog[i])}
            accepted ==
                {i \in counted :
                    /\ Extracted[recvLog[i]].err = Nil
                    /\ Classify(Extracted[recvLog[i]].e).status = "Accepted"}
        IN  /\ stats.Accept = Cardinality(accepted)
            /\ stats.Reject = Cardinality(counted \ accepted)
            /\ \A i \in 1..Len(recvLog) : Extracting(recvLog[i]) => Running

\* C27: with P >= 1, no path is received by a worker twice and no worker
\* has returned while the scanner is still running; from the moment main
\* reads the counters for the summary the scanner is done, Total and Relevant
\* hold their final values, Accept + Reject = Relevant = the number of rows
\* after the header in the report, and the paths the workers received are
\* the relevant paths, each once; the summary printed holds those values.
C27_FinalCounts ==
    procs >= 1 =>
        /\ \A i, j \in 1..Len(recvLog) : recvLog[i] = recvLog[j] => i = j
        /\ \A w \in Workers : wpc[w] = "done" => scanPc = "done" /\ filesClosed
        /\ mainPc \in {"summary", "log", "done"} =>
             /\ scanPc = "done"
             /\ stats.Total =
                  Cardinality({i \in 1..Len(visited) :
                                  \E k \in 1..Len(Catalogue) :
                                      /\ Catalogue[k].path = visited[i]
                                      /\ Catalogue[k].fi = "file"})
             /\ stats.Relevant = Len(FilesToProcess)
             /\ stats.Accept + stats.Reject = stats.Relevant
             /\ Len(report) - 1 = stats.Relevant
             /\ Len(recvLog) = Len(FilesToProcess)
             /\ {recvLog[i] : i \in 1..Len(recvLog)}
                  = {FilesToProcess[i] : i \in 1..Len(FilesToProcess)}
        /\ mainPc = "done" =>
             summary = << stats.Total, stats.Relevant, stats.Reject, stats.Accept >>

\* Two workers, three relevant files and one that is not, received in an
\* order other than the walk's or not: the run is complete.
C27_Witness ==
    /\ procs = 2 /\ mainPc = "done" /\ procState = "exited"
    /\ stats.Total = 4 /\ stats.Relevant = 3 /\ stats.Accept = 1 /\ stats.Reject = 2
    /\ Len(report) = 4 /\ summary = << 4, 3, 2, 1 >>

\* C30: with no worker asked for (procs = 0 stands for every -p <= 0, the
\* loop of main being "for i := 0; i < *procs; i++"), no worker is ever
\* started and no path is ever received; main does not wait at the barrier;
\* results is closed while empty; the counters Accept and Reject stay 0; and
\* when main has returned the report is the header alone and the summary
\* holds Accept = Reject = 0.  Under fair scheduling the process ends.
C30_NoWorkers ==
    /\ [](procs = 0 =>
            /\ spawned = 0 /\ ingroup = 0
            /\ \A w \in Workers : wpc[w] = "idle"
            /\ recvLog = <<>> /\ sentLog = <<>> /\ results = <<>> /\ outBuf = <<>>
            /\ Len(emitLog) <= QueueCap
            /\ stats.Accept = 0 /\ stats.Reject = 0
            /\ report \in {<<>>, <<csvHeader>>}
            /\ (Running /\ mainPc = "waitIn") => ENABLED MainCloseResults
            /\ mainPc \in {"waitOut", "summary", "log", "done"} => resultsClosed
            /\ mainPc = "done" =>
                 /\ report = <<csvHeader>>
                 /\ Len(summary) = 4 /\ summary[3] = 0 /\ summary[4] = 0
                 /\ summary[1] <= stats.Total /\ summary[2] <= stats.Relevant)
    /\ (procs = 0) => <>(mainPc = "done" \/ Aborted)

\* main has returned while the scanner, with a relevant path in the full
\* files channel and a second one in hand, waits to send; the Total of the
\* summary is already behind the counter.
C30_Witness ==
    /\ procs = 0 /\ mainPc = "done" /\ procState = "exited"
    /\ scanPc = "send" /\ Len(files) = QueueCap
    /\ report = <<csvHeader>> /\ summary[3] = 0 /\ summary[4] = 0
    /\ summary[1] < stats.Total /\ stats.Relevant >= 1

(***************************************************************************)
(* Properties of one iteration of processFiles.                            *)
(***************************************************************************)
\* C7: the status and reason cells of the row are "Rejected" and the error
\* text when extraction failed; else "Accepted" and "" exactly when the record
\* has a date and keywords or a description; else "Incomplete" and "Minimum
\* metadata not provided".
C7_Classification ==
    rOut.row # <<>> =>
        IF rIn.err # Nil
        THEN rOut.row[2] = "Rejected" /\ rOut.row[3] = rIn.err
        ELSE IF HasDateCreated(rIn.e) /\ (HasKeywords(rIn.e) \/ HasDescription(rIn.e))
             THEN rOut.row[2] = "Accepted" /\ rOut.row[3] = ""
             ELSE /\ rOut.row[2] = "Incomplete"
                  /\ rOut.row[3] = "Minimum metadata not provided"

C7_Witness ==
    /\ rOut.row # <<>> /\ rIn.err = Nil /\ rOut.row[2] = "Accepted"
    /\ rIn.status = "Incomplete" /\ ~HasDescription(rIn.e)

\* C8: the row for a path whose extraction failed is the path, "Rejected",
\* the error text and 13 empty cells.
C8_ErrorRow ==
    (rOut.row # <<>> /\ rIn.err # Nil) =>
        rOut.row = << rIn.p, "Rejected", rIn.err, "", "", "", "", "", "", "", "", "",
                      "", "", "", "" >>

C8_Witness == rOut.row # <<>> /\ rIn.err = "exit status 1" /\ rIn.status = "Accepted"

\* C9: a row has 16 cells, one for each column of the header in the header's
\* order; in a row for a file whose extraction succeeded the cells under
\* "508 Description", "Center", "Secondary Creator Credit" and "Album"
\* (6, 13, 14, 16) are "N/A", and the cell under "Date Created" is empty when
\* no date resolves and the resolved date in RFC 3339 form when one does.
C9_RowShape ==
    rOut.row # <<>> =>
        /\ Len(rOut.row) = 16 /\ Len(csvHeader) = 16
        /\ rIn.err = Nil =>
             /\ << csvHeader[6], csvHeader[13], csvHeader[14], csvHeader[16] >>
                = << "508 Description", "Center", "Secondary Creator Credit", "Album" >>
             /\ \A k \in {6, 13, 14, 16} : rOut.row[k] = "N/A"
             /\ << csvHeader[1], csvHeader[4], csvHeader[7], csvHeader[8], csvHeader[10] >>
                = << "Path", "NASA ID", "Description", "Date Created", "Keywords" >>
             /\ rOut.row[1] = rIn.p
             /\ rOut.row[4] = NasaID(rIn.e)
             /\ rOut.row[7] = Description(rIn.e)
             /\ rOut.row[10] = Keywords(rIn.e)
             /\ IF DateCreated(rIn.e).err = Nil
                THEN rOut.row[8] = FormatRFC3339(DateCreated(rIn.e).t)
                ELSE rOut.row[8] = ""

C9_Witness ==
    /\ rOut.row # <<>> /\ rIn.err = Nil
    /\ rOut.row[8] = "2015-01-09T01:32:16-08:00"
    /\ rOut.row[7] = "Row of power lines"

\* The IPTC pair as DateCreated reads it: joined by a space and trimmed.
IptcString(e) ==
    TrimSpace(Get(e.IPTC, "DateCreated") \o " " \o Get(e.IPTC, "TimeCreated"))

\* C10: DateCreated is the parse of the IPTC string when that is not empty,
\* whatever the Exif and XMP tags hold; of Exif DateTimeOriginal when the IPTC
\* string is empty and that tag is not; of XMP DateCreated when both are
\* empty.
C10_IptcFirst ==
    rOut.date # <<>> =>
        rOut.date =
            parseDate(IF IptcString(rIn.e) # "" THEN IptcString(rIn.e)
                      ELSE IF Get(rIn.e.Exif, "DateTimeOriginal") # ""
                           THEN Get(rIn.e.Exif, "DateTimeOriginal")
                           ELSE Get(rIn.e.XMP, "DateCreated"))

C10_Witness ==
    /\ rOut.date # <<>>
    /\ IptcString(rIn.e) = "2015:01:09 01:32:16-08:00"
    /\ Get(rIn.e.Exif, "DateTimeOriginal") = "2003:09:01 18:28:44"
    /\ Get(rIn.e.XMP, "DateCreated") # ""
    /\ rOut.date.err = Nil /\ rOut.date.t.year = 2015 /\ rOut.date.t.off = 0 - 28800

\* C28: the row for a record whose extraction succeeded is never the error
\* row: its status is "Accepted" or "Incomplete", never "Rejected", and its
\* constant cells hold "N/A"; whenever HasDateCreated is true the DateCreated
\* call returns no error and the date cell holds that date; and the status is
\* "Accepted" exactly when the iteration incremented Accept, so the rows with
\* status "Accepted" are as many as Accept counts.
C28_NoErrorRowFallback ==
    /\ (rOut.row # <<>> /\ rIn.err = Nil) =>
          /\ rOut.row[2] \in {"Accepted", "Incomplete"}
          /\ rOut.row[6] = "N/A" /\ rOut.row[16] = "N/A"
          /\ (rOut.row[2] = "Accepted") = (rOut.counter = "Accept")
          /\ (rOut.row[2] = "Incomplete") = (rOut.counter = "Reject")
          /\ rOut.row[2] = "Incomplete" => rOut.row[3] = "Minimum metadata not provided"
          /\ rOut.row[2] = "Accepted" => rOut.row[3] = "" /\ rOut.row[8] # ""
          /\ rOut.date # <<>> =>
                /\ HasDateCreated(rIn.e) = (rOut.date.err = Nil)
                /\ rOut.date.err = Nil => rOut.row[8] = FormatRFC3339(rOut.date.t)
                /\ rOut.date.err # Nil => rOut.row[8] = "" /\ rOut.row[2] = "Incomplete"
    /\ (rOut.row # <<>> /\ rIn.err # Nil) =>
          rOut.row[2] = "Rejected" /\ rOut.counter = "Reject"

\* A record with a date that does not parse and a description: extraction
\* succeeded, the date fails, and the row is a normal row all the same.
C28_Witness ==
    /\ rOut.row # <<>> /\ rOut.date # <<>> /\ rIn.err = Nil
    /\ Get(rIn.e.Exif, "DateTimeOriginal") = "0000:00:00 00:00:00"
    /\ IptcString(rIn.e) = ""
    /\ rOut.date.err # Nil
    /\ rOut.row[2] = "Incomplete" /\ rOut.row[7] = "Row of power lines"
    /\ rOut.row[8] = "" /\ rOut.counter = "Reject"

\* C29: when the IPTC date string is not empty and does not parse, as
\* TimeCreated alone does not, DateCreated returns an error and
\* HasDateCreated false whatever Exif DateTimeOriginal and XMP DateCreated
\* hold; the record is counted into Reject and its row is "Incomplete" with
\* an empty date cell.
C29_NoFallThroughOnParseFailure ==
    (rIn.err = Nil /\ IptcString(rIn.e) # "" /\ parseDate(IptcString(rIn.e)).err # Nil) =>
        /\ IptcString(rIn.e) = "01:32:16-08:00"
        /\ rOut.date # <<>> => rOut.date.err # Nil
        /\ rOut.row # <<>> =>
              /\ ~HasDateCreated(rIn.e)
              /\ rOut.counter = "Reject"
              /\ rOut.row[2] = "Incomplete" /\ rOut.row[8] = ""

\* TimeCreated alone, with a parsable Exif date, a parsable XMP date and
\* keywords.
C29_Witness ==
    /\ rOut.row # <<>> /\ rOut.date # <<>> /\ rIn.err = Nil
    /\ Get(rIn.e.IPTC, "DateCreated") = ""
    /\ Get(rIn.e.IPTC, "TimeCreated") = "01:32:16-08:00"
    /\ Get(rIn.e.Exif, "DateTimeOriginal") = "2003:09:01 18:28:44"
    /\ parseDate(Get(rIn.e.Exif, "DateTimeOriginal")).err = Nil
    /\ Get(rIn.e.XMP, "DateCreated") = "2016:02:29 10:00:00.50"
    /\ parseDate(Get(rIn.e.XMP, "DateCreated")).err = Nil
    /\ Get(rIn.e.IPTC, "Keywords") = "sunset"
    /\ rOut.date.err # Nil /\ rOut.row[2] = "Incomplete" /\ rOut.counter = "Reject"

(***************************************************************************)
(* Properties of the resolution methods.                                   *)
(***************************************************************************)
\* C11: when none of the five identifier tags is populated and FileName is not
\* empty, NasaID is not empty and is FileName without its extension: for
\* "aname.jpg" it is "aname", for "archive.tar.gz" "archive.tar", for "aname"
\* "aname", and a name that begins with a dot and holds no other dot resolves
\* to a value that is not empty too.
C11_AssetIdFallback ==
    (/\ rOut.fields # <<>>
     /\ \A i \in 1..Len(IdTags) : Get(rIn.e[IdTags[i][1]], IdTags[i][2]) = ""
     /\ Get(rIn.e.Data, "FileName") # "") =>
        /\ rOut.fields.NasaID # ""
        /\ Get(rIn.e.Data, "FileName") = "aname.jpg" => rOut.fields.NasaID = "aname"
        /\ Get(rIn.e.Data, "FileName") = "archive.tar.gz" =>
             rOut.fields.NasaID = "archive.tar"
        /\ Get(rIn.e.Data, "FileName") = "aname" => rOut.fields.NasaID = "aname"

\* C12: when the MIMEType of the record is not an accepted type, MediaType and
\* FileFormat are both empty, whatever XMP Format and FileType hold.
C12_TypeGate ==
    (rOut.fields # <<>> /\ Get(rIn.e.Data, "MIMEType") \notin mimeTypes) =>
        /\ rOut.fields.MediaType = ""
        /\ rOut.fields.FileFormat = ""

\* C20: for NasaID, Title, Description, Keywords, Location, MediaType,
\* FileFormat and Photographer the Has method returns true exactly when the
\* method returns a value that is not empty; HasDateCreated returns true
\* exactly when DateCreated returns no error, so it is false when no date
\* string is found and false for a date string that does not parse.
C20_HasIffNonEmpty ==
    (rOut.fields # <<>> /\ rOut.has # <<>>) =>
        /\ \A f \in {"NasaID", "Title", "Description", "Keywords", "Location",
                     "MediaType", "FileFormat", "Photographer"} :
               rOut.has[f] = (rOut.fields[f] # "")
        /\ rOut.has.DateCreated = (rOut.fields.DateCreated.err = Nil)
        /\ (IptcString(rIn.e) = "" /\ Get(rIn.e.Exif, "DateTimeOriginal") = ""
            /\ Get(rIn.e.XMP, "DateCreated") = "") => ~rOut.has.DateCreated
        /\ (IptcString(rIn.e) = "01:32:16-08:00"
            \/ Get(rIn.e.Exif, "DateTimeOriginal") = "0000:00:00 00:00:00") =>
               ~rOut.has.DateCreated
        /\ Get(rIn.e.Exif, "DateTimeOriginal") = "2003:09:01 18:28:44" =>
               rOut.has.DateCreated

C20_Witness ==
    /\ rOut.fields # <<>> /\ rOut.has # <<>>
    /\ IptcString(rIn.e) = "01:32:16-08:00" /\ ~rOut.has.DateCreated
    /\ rOut.has.Title /\ rOut.has.Location /\ ~rOut.has.Photographer
    /\ rOut.fields.Location = "Texas, USA"

(***************************************************************************)
(* Properties of getExifData.                                              *)
(***************************************************************************)
\* C14: when the tool exits successfully getExifData returns, without a
\* slice past the end of a line, whatever the lines are; output that is empty
\* or holds only lines shorter than the columns gives the empty record.
C14_NoSlicePastEnd ==
    (rOut.res # <<>> /\ rIn.run.err = Nil) =>
        /\ ~rOut.res.panic
        /\ rOut.res.err = Nil
        /\ rIn.run.out \in {"", "\n", "Warning: Bad IFD0 directory\n"} =>
               rOut.res.e = newExif

\* C15: when cmd.Run() returns an error getExifData returns that error and a
\* record that has the four maps Data, Exif, IPTC and XMP, each of them empty,
\* whatever the tool wrote to the buffer before it failed.
C15_ErrorGivesEmptyRecord ==
    (rOut.res # <<>> /\ rIn.run.err # Nil) =>
        /\ ~rOut.res.panic
        /\ rOut.res.err = rIn.run.err
        /\ DOMAIN rOut.res.e = {"Data", "Exif", "IPTC", "XMP"}
        /\ \A g \in DOMAIN rOut.res.e : DOMAIN rOut.res.e[g] = {}

C15_Witness ==
    /\ rOut.res # <<>> /\ rIn.run.err = "exit status 1"
    /\ rIn.run.out = FileLines("image.jpg", "JPEG", "image/jpeg")
                     \o ToolLine("XMP", "Subject", "rain")
    /\ rOut.res.err = "exit status 1"

(***************************************************************************)
(* Properties of parseDate.                                                *)
(***************************************************************************)
\* C19: parseDate returns no error for a date alone and for a date and a
\* time, with or without a fraction of a second, with or without an offset
\* of either sign, whatever white space surrounds the string, and the time it
\* returns has the fields and the offset of the string; it returns an error
\* for every other string.
C19_LayoutsParse ==
    rOut.parsed # <<>> =>
        IF /\ rIn.date \in {"2015:01:09", "2016:02:29"}
           /\ \/ rIn.time = "" /\ rIn.zone = ""
              \/ /\ rIn.time \in {" 01:32:16", " 01:32:16.90"}
                 /\ rIn.zone \in {"", "-08:00", "+05:30"}
        THEN /\ rOut.parsed.err = Nil
             /\ rOut.parsed.t.year = (IF rIn.date = "2015:01:09" THEN 2015 ELSE 2016)
             /\ rOut.parsed.t.day = (IF rIn.date = "2015:01:09" THEN 9 ELSE 29)
             /\ rOut.parsed.t.min = (IF rIn.time = "" THEN 0 ELSE 32)
             /\ rOut.parsed.t.nsec =
                    (IF rIn.time = " 01:32:16.90" THEN 900000000 ELSE 0)
             /\ rOut.parsed.t.off =
                    (CASE rIn.zone = "-08:00" -> 0 - 28800
                       [] rIn.zone = "+05:30" -> 19800
                       [] OTHER -> 0)
        ELSE rOut.parsed.err # Nil


C25_MediaTypeSource ==
    rOut.fields # <<>> =>
        LET f == Get(rIn.e.XMP, "Format")
            m == Get(rIn.e.Data, "MIMEType")
            chosen == IF f # "" THEN f ELSE m
            Part == ("image/jpeg" :> "image") @@ ("audio/mpeg" :> "audio")
                    @@ ("application/pdf" :> "application")
            mt == rOut.fields.MediaType
        IN  /\ DOMAIN Part = mimeTypes
            /\ IF chosen \in mimeTypes /\ Part[chosen] \in {"audio", "image", "video"}
               THEN mt = Part[chosen]
               ELSE mt = ""
            /\ (f # "" /\ f \notin mimeTypes) => mt = ""
            /\ (f = "application/pdf" /\ m = "image/jpeg") => mt = ""
            /\ (f = "image/jpeg" /\ m = "audio/mpeg") => mt = "image"

\* XMP Format holds a type that is not accepted and MIMEType an accepted one.
C25_Witness ==
    /\ rOut.fields # <<>>
    /\ Get(rIn.e.XMP, "Format") = "application/json"
    /\ Get(rIn.e.Data, "MIMEType") = "image/jpeg"
    /\ rOut.fields.MediaType = ""
=============================================================================
